---- MODULE Spec2Model ----
(***************************************************************************)
(* Model of pina/condition.py: the constructor Condition.__init__, taken   *)
(* statement by statement.  A call supplies positional arguments and a     *)
(* keyword dictionary (kept in insertion order, as Python does); the       *)
(* constructor runs lines 66..96 and either returns the object or raises.  *)
(***************************************************************************)
EXTENDS Integers, Sequences, FiniteSets, TLC

VARIABLES
    pc,        \* statement of __init__ about to run, or idle / returned / raised
    args,      \* *args of the running call
    kwargs,    \* **kwargs of the running call (local dict, insertion order)
    self,      \* the object under construction: populated slot -> value
    i,         \* loop index of `for i, func in enumerate(kwargs['function'])`
    exc,       \* the exception raised by the call, NoExc if none
    returned,  \* TRUE once the constructor has handed the object to the caller
    call       \* the arguments as the caller supplied them

vars == <<pc, args, kwargs, self, i, exc, returned, call>>

(* ------------------------------ bounds -------------------------------- *)
MaxArgs == 1
MaxKwargs == 3
MaxFuncs == 2

(* ------------------------------ values -------------------------------- *)
\* A Python value: its class, an identity, and (for list / tuple) its items.
Atom(c, n) == [cls |-> c, id |-> n, items |-> <<>>]
ListOf(s) == [cls |-> "list", id |-> "", items |-> s]
TupleOf(s) == [cls |-> "tuple", id |-> "", items |-> s]

T1 == Atom("LabelTensor", "T1")
T2 == Atom("LabelTensor", "T2")
L1 == Atom("Location", "L")
F1 == Atom("function", "f1")
F2 == Atom("function", "f2")
N5 == Atom("int", "5")

DefaultWeight == Atom("float", "1.0")
Weights == {Atom("float", "2.5"), Atom("float", "-3.0"), Atom("str", "text")}

IsInstance(v, c) == v.cls = c

CallableNotNone(v) == v.cls # "NoneType"

Callable(v) == v.cls = "function"

Slots == {"input_points", "output_points", "location", "function", "data_weight"}

\* Every keyword name a caller of the model may use; "extra" is a name the
\* class does not know.
KeyNames == Slots \cup {"extra"}

\* Alphabetical rank of the keyword names: the order `sorted` puts them in.
Rank == [k \in KeyNames |->
            CASE k = "data_weight"   -> 1
              [] k = "extra"         -> 2
              [] k = "function"      -> 3
              [] k = "input_points"  -> 4
              [] k = "location"      -> 5
              [] k = "output_points" -> 6]

RECURSIVE Insert(_, _)
Insert(x, s) ==
    IF s = <<>> THEN <<x>>
    ELSE IF Rank[x] <= Rank[Head(s)] THEN <<x>> \o s
    ELSE <<Head(s)>> \o Insert(x, Tail(s))

RECURSIVE Sorted(_)
Sorted(s) == IF s = <<>> THEN <<>> ELSE Insert(Head(s), Sorted(Tail(s)))

(* --------------------------- dictionaries ----------------------------- *)
Item(k, v) == [key |-> k, value |-> v]
Keys(kw) == [j \in 1..Len(kw) |-> kw[j].key]
KeySet(kw) == {kw[j].key : j \in 1..Len(kw)}
Has(kw, k) == k \in KeySet(kw)
Get(kw, k) == kw[CHOOSE j \in 1..Len(kw) : kw[j].key = k].value
Remove(kw, k) == SelectSeq(kw, LAMBDA e : e.key # k)
SetItem(kw, k, v) == [j \in 1..Len(kw) |-> IF kw[j].key = k THEN Item(k, v) ELSE kw[j]]

PopIgnoring(kw, k, d) == d

\* dict.pop(k, d): the value removed, d when the key is missing
Pop(kw, k, d) == IF Has(kw, k) THEN Get(kw, k) ELSE d

(* ----------------------------- the object ----------------------------- *)
None == Atom("NoneType", "None")

DefaultedObject == [s \in Slots |-> None]

\* A fresh instance of a __slots__ class: no slot is populated.
EmptyObject == [s \in {} |-> None]

SetAttr(obj, k, v) == [s \in (DOMAIN obj) \cup {k} |-> IF s = k THEN v ELSE obj[s]]

RECURSIVE StoreAllDefaulting(_, _)
StoreAllDefaulting(obj, kw) ==
    IF kw = <<>> THEN [s \in Slots |-> IF s \in DOMAIN obj THEN obj[s] ELSE None]
    ELSE StoreAllDefaulting(SetAttr(obj, Head(kw).key, Head(kw).value), Tail(kw))

\* for key, value in kwargs.items(): setattr(self, key, value)
RECURSIVE StoreAll(_, _)
StoreAll(obj, kw) ==
    IF kw = <<>> THEN obj
    ELSE StoreAll(SetAttr(obj, Head(kw).key, Head(kw).value), Tail(kw))

(* ---------------------------- exceptions ------------------------------ *)
NoExc == [type |-> "None", site |-> "", index |-> -1]
ValueErrorArgs == [type |-> "ValueError", site |-> "args", index |-> -1]
ValueErrorKeys == [type |-> "ValueError", site |-> "keys", index |-> -1]
TypeErrorField(f) == [type |-> "TypeError", site |-> f, index |-> -1]
TypeErrorFunction(n) == [type |-> "TypeError", site |-> "function", index |-> n]

(* ------------------------- checks of __init__ ------------------------- *)
DictValueIsInstanceStrict(dict_, key_, class_) ==
    Has(dict_, key_) /\ IsInstance(Get(dict_, key_), class_)

DictValueIsInstance(dict_, key_, class_) ==
    IF ~Has(dict_, key_) THEN TRUE ELSE IsInstance(Get(dict_, key_), class_)

KeysInvalidSubset(kw) ==
    /\ ~(KeySet(kw) \subseteq {"input_points", "output_points"})
    /\ ~(KeySet(kw) \subseteq {"location", "function"})
    /\ ~(KeySet(kw) \subseteq {"input_points", "function"})

\* the condition of the `if` at lines 71-75
KeysInvalid(kw) ==
    /\ Sorted(Keys(kw)) # Sorted(<<"input_points", "output_points">>)
    /\ Sorted(Keys(kw)) # Sorted(<<"location", "function">>)
    /\ Sorted(Keys(kw)) # Sorted(<<"input_points", "function">>)

NormalizeKeep(kw) == kw

\* lines 86-87: a `function` that is not a list becomes a one-element list
Normalize(kw) ==
    IF ~IsInstance(Get(kw, "function"), "list")
    THEN SetItem(kw, "function", ListOf(<<Get(kw, "function")>>))
    ELSE kw

(* --------------------------- statement order -------------------------- *)
NextStmtKeysFirst(line) ==
    CASE line = "l66" -> "l71"
      [] line = "l71" -> "l68"
      [] line = "l68" -> "l78"
      [] line = "l78" -> "l80"
      [] line = "l80" -> "l82"
      [] line = "l82" -> "l85"
      [] line = "l85" -> "l90"
      [] line = "l90" -> "l95"
      [] line = "l95" -> "returned"

NextStmtOutputFirst(line) ==
    CASE line = "l66" -> "l68"
      [] line = "l68" -> "l71"
      [] line = "l71" -> "l80"
      [] line = "l80" -> "l78"
      [] line = "l78" -> "l82"
      [] line = "l82" -> "l85"
      [] line = "l85" -> "l90"
      [] line = "l90" -> "l95"
      [] line = "l95" -> "returned"

\* The statement that follows a statement that did not raise.
NextStmt(line) ==
    CASE line = "l66" -> "l68"
      [] line = "l68" -> "l71"
      [] line = "l71" -> "l78"
      [] line = "l78" -> "l80"
      [] line = "l80" -> "l82"
      [] line = "l82" -> "l85"
      [] line = "l85" -> "l90"
      [] line = "l90" -> "l95"
      [] line = "l95" -> "returned"

(* ------------------------------ inputs -------------------------------- *)
Elems == {F1, F2, N5}
Lists == {ListOf(s) : s \in UNION {[1..n -> Elems] : n \in 0..MaxFuncs}}

ValuesFor(k) ==
    CASE k = "input_points"  -> {T1, N5, L1}
      [] k = "output_points" -> {T2, N5}
      [] k = "location"      -> {L1, N5}
      [] k = "function"      -> {F1, N5, TupleOf(<<F1>>)} \cup Lists
      [] k = "data_weight"   -> Weights
      [] k = "extra"         -> {N5}

Items == UNION {{Item(k, v) : v \in ValuesFor(k)} : k \in KeyNames}

\* keyword dictionaries: keys are distinct, any insertion order
KwargsChoices ==
    {kw \in UNION {[1..n -> Items] : n \in 0..MaxKwargs} :
        \A a, b \in 1..Len(kw) : a # b => kw[a].key # kw[b].key}

ArgsChoices == UNION {[1..n -> {N5}] : n \in 0..MaxArgs}

NoCall == [args |-> <<>>, kwargs |-> <<>>]

(* ------------------------------ actions ------------------------------- *)
Init ==
    /\ pc = "idle"
    /\ args = <<>>
    /\ kwargs = <<>>
    /\ self = EmptyObject
    /\ i = 0
    /\ exc = NoExc
    /\ returned = FALSE
    /\ call = NoCall

\* Condition(*a, **kw): the instance is allocated and __init__ entered
Call ==
    /\ pc = "idle"
    /\ \E a \in ArgsChoices, kw \in KwargsChoices :
         /\ args' = a
         /\ kwargs' = kw
         /\ call' = [args |-> a, kwargs |-> kw]
    /\ self' = EmptyObject
    /\ pc' = "l66"
    /\ UNCHANGED <<i, exc, returned>>

\* line 66: self.data_weight = kwargs.pop('data_weight', 1.0)
PopDataWeight ==
    /\ pc = "l66"
    /\ self' = SetAttr(self, "data_weight", Pop(kwargs, "data_weight", DefaultWeight))
    /\ kwargs' = Remove(kwargs, "data_weight")
    /\ pc' = NextStmt(pc)
    /\ UNCHANGED <<args, i, exc, returned, call>>

\* lines 68-69
CheckArgs ==
    /\ pc = "l68"
    /\ IF Len(args) # 0
       THEN exc' = ValueErrorArgs /\ pc' = "raised"
       ELSE exc' = exc /\ pc' = NextStmt(pc)
    /\ UNCHANGED <<args, kwargs, self, i, returned, call>>

\* lines 71-76
CheckKeys ==
    /\ pc = "l71"
    /\ IF KeysInvalid(kwargs)
       THEN exc' = ValueErrorKeys /\ pc' = "raised"
       ELSE exc' = exc /\ pc' = NextStmt(pc)
    /\ UNCHANGED <<args, kwargs, self, i, returned, call>>

CheckField(line, field, class_) ==
    /\ pc = line
    /\ IF ~DictValueIsInstance(kwargs, field, class_)
       THEN exc' = TypeErrorField(field) /\ pc' = "raised"
       ELSE exc' = exc /\ pc' = NextStmt(pc)
    /\ UNCHANGED <<args, kwargs, self, i, returned, call>>

\* lines 78-79
CheckInputPoints == CheckField("l78", "input_points", "LabelTensor")

\* lines 80-81
CheckOutputPoints == CheckField("l80", "output_points", "LabelTensor")

\* lines 82-83
CheckLocation == CheckField("l82", "location", "Location")

\* lines 85-87; without `function` the whole block 85-93 is skipped
NormalizeFunction ==
    /\ pc = "l85"
    /\ IF Has(kwargs, "function")
       THEN kwargs' = Normalize(kwargs) /\ pc' = NextStmt(pc)
       ELSE kwargs' = kwargs /\ pc' = NextStmt(NextStmt(pc))
    /\ i' = 0
    /\ UNCHANGED <<args, self, exc, returned, call>>

\* lines 90-93: one iteration of the loop, or its exit
CheckCallable ==
    /\ pc = "l90"
    /\ LET fs == Get(kwargs, "function").items IN
       IF i >= Len(fs)
       THEN /\ pc' = NextStmt(pc)
            /\ UNCHANGED <<i, exc>>
       ELSE IF ~Callable(fs[i + 1])
       THEN /\ exc' = TypeErrorFunction(i)
            /\ pc' = "raised"
            /\ i' = i
       ELSE /\ i' = i + 1
            /\ UNCHANGED <<pc, exc>>
    /\ UNCHANGED <<args, kwargs, self, returned, call>>

\* lines 95-96, then the implicit return of the instance to the caller
SetAttrs ==
    /\ pc = "l95"
    /\ self' = StoreAll(self, kwargs)
    /\ returned' = TRUE
    /\ pc' = NextStmt(pc)
    /\ UNCHANGED <<args, kwargs, i, exc, call>>

\* the caller is done with the outcome; the next construction is independent
Discard ==
    /\ pc \in {"returned", "raised"}
    /\ pc' = "idle"
    /\ args' = <<>>
    /\ kwargs' = <<>>
    /\ self' = EmptyObject
    /\ i' = 0
    /\ exc' = NoExc
    /\ returned' = FALSE
    /\ call' = NoCall

Next ==
    \/ Call
    \/ PopDataWeight
    \/ CheckArgs
    \/ CheckKeys
    \/ CheckInputPoints
    \/ CheckOutputPoints
    \/ CheckLocation
    \/ NormalizeFunction
    \/ CheckCallable
    \/ SetAttrs
    \/ Discard

Spec == Init /\ [][Next]_vars

TypeOK ==
    /\ pc \in {"idle", "l66", "l68", "l71", "l78", "l80", "l82", "l85", "l90",
               "l95", "returned", "raised"}
    /\ DOMAIN self \subseteq Slots
    /\ i \in 0..(MaxFuncs + 1)
    /\ returned \in BOOLEAN

(* ------------------------ vocabulary of the claims -------------------- *)
Terminal == pc \in {"returned", "raised"}
Supplied == call.kwargs
SuppliedKeys == KeySet(Supplied) \ {"data_weight"}
VariantKeySets == {{"input_points", "output_points"},
                   {"location", "function"},
                   {"input_points", "function"}}
NoPositional == Len(call.args) = 0

\* the spec's names for the failures of the constructor
ArityError == pc = "raised" /\ exc = ValueErrorArgs
ShapeError == pc = "raised" /\ exc = ValueErrorKeys
TypeError == pc = "raised" /\ exc.type = "TypeError"

ExpectedClass(f) == IF f = "location" THEN "Location" ELSE "LabelTensor"
TypedFields == {"input_points", "output_points", "location"}
WrongTyped == {f \in TypedFields :
                 Has(Supplied, f) /\ Get(Supplied, f).cls # ExpectedClass(f)}

\* the sequence the callability loop runs over, from the supplied value
SuppliedFunction == Get(Supplied, "function")
NormalizedItems ==
    IF SuppliedFunction.cls = "list" THEN SuppliedFunction.items
    ELSE <<SuppliedFunction>>
NonCallableAt == {n \in 1..Len(NormalizedItems) : NormalizedItems[n].cls # "function"}
FirstNonCallable == CHOOSE n \in NonCallableAt : \A m \in NonCallableAt : n <= m

\* C1: with no positional argument, a keyword set (data_weight aside) that is
\* not exactly one of the three variants ends in ShapeError, whether or not
\* data_weight was supplied.
C1_InvalidKeySetIsShapeError ==
    (Terminal /\ NoPositional /\ SuppliedKeys \notin VariantKeySets) => ShapeError

C1_Witness ==
    /\ ShapeError
    /\ NoPositional
    /\ KeySet(Supplied) = {"input_points", "location", "data_weight"}

\* C2: after a successful construction the populated attributes are exactly
\* the keys of one variant plus data_weight; the other fields are absent.
C2_PopulatedIsVariantPlusWeight ==
    pc = "returned" =>
        /\ (DOMAIN self) \ {"data_weight"} \in VariantKeySets
        /\ (DOMAIN self) \ {"data_weight"} = SuppliedKeys
        /\ "data_weight" \in DOMAIN self
        /\ \A f \in DOMAIN self : self[f] # None

C2_Witness ==
    /\ pc = "returned"
    /\ DOMAIN self = {"location", "function", "data_weight"}

\* C3: a call with a positional argument ends in ArityError whatever its
\* keyword arguments are.
C3_PositionalIsArityError ==
    (Terminal /\ ~NoPositional) => ArityError

C3_Witness ==
    /\ ArityError
    /\ SuppliedKeys = {"input_points", "extra"}
    /\ Get(Supplied, "input_points") = N5

\* C4: with no positional argument and a variant key set, a wrongly typed
\* input_points / output_points / location ends in a TypeError naming a
\* wrongly typed present field; the value is never coerced, and an absent
\* field is never the one a TypeError names.
C4_WrongTypeIsTypeError ==
    /\ (Terminal /\ NoPositional /\ SuppliedKeys \in VariantKeySets /\ WrongTyped # {})
          => (TypeError /\ exc.site \in WrongTyped)
    /\ \A f \in TypedFields :
          Has(kwargs, f) => (Has(Supplied, f) /\ Get(kwargs, f) = Get(Supplied, f))
    /\ (TypeError /\ exc.site \in TypedFields) => exc.site \in WrongTyped

C4_Witness ==
    /\ TypeError
    /\ exc.site = "location"
    /\ SuppliedKeys = {"location", "function"}
    /\ Get(Supplied, "location") = N5

\* C5: on success a single callable f is stored as [f], and a list of
\* callables is stored with the same elements in the same order.
C5_FunctionStoredInOrder ==
    (pc = "returned" /\ Has(Supplied, "function")) =>
        /\ "function" \in DOMAIN self
        /\ self["function"].cls = "list"
        /\ self["function"].items = NormalizedItems

C5_Witness ==
    /\ pc = "returned"
    /\ Has(Supplied, "function")
    /\ SuppliedFunction = ListOf(<<F2, F1>>)
    /\ self["function"].items = <<F2, F1>>

\* C6: on every object built with `function`, function is a non-empty
\* sequence of callables.
C6_FunctionNonEmptyCallables ==
    (pc = "returned" /\ "function" \in DOMAIN self) =>
        /\ self["function"].cls = "list"
        /\ Len(self["function"].items) > 0
        /\ \A n \in 1..Len(self["function"].items) : Callable(self["function"].items[n])

\* C7: past the arity, key-set and field-type checks, a non-callable element
\* of the normalized function sequence ends in a TypeError whose index is the
\* zero-based index of the first such element.
C7_FirstNonCallableIndex ==
    (/\ Terminal
     /\ NoPositional
     /\ SuppliedKeys \in VariantKeySets
     /\ WrongTyped = {}
     /\ Has(Supplied, "function")
     /\ NonCallableAt # {})
        => (TypeError /\ exc = TypeErrorFunction(FirstNonCallable - 1))

C7_Witness ==
    /\ TypeError
    /\ Has(Supplied, "function")
    /\ SuppliedFunction = ListOf(<<F1, N5>>)
    /\ exc.site = "function"
    /\ exc.index = 1

\* C8: on success data_weight is the supplied value verbatim, or 1.0 when
\* it was omitted.
C8_DataWeightVerbatimOrDefault ==
    pc = "returned" =>
        /\ "data_weight" \in DOMAIN self
        /\ Has(Supplied, "data_weight") => self["data_weight"] = Get(Supplied, "data_weight")
        /\ ~Has(Supplied, "data_weight") => self["data_weight"] = DefaultWeight

C8_Witness ==
    /\ pc = "returned"
    /\ Has(Supplied, "data_weight")
    /\ self["data_weight"] = Atom("str", "text")

\* C9 as stated: at the point of rejection no field of the object under
\* construction, data_weight included, has been populated.
C9_NothingPopulatedAtRejection ==
    pc = "raised" => DOMAIN self = {}

\* C9 amended: at the point of rejection data_weight is the only populated
\* field, and the object has not been handed to the caller.
C9_OnlyWeightPopulatedAtRejection ==
    pc = "raised" => (DOMAIN self = {"data_weight"} /\ ~returned)

C9_Witness ==
    /\ pc = "raised"
    /\ exc = TypeErrorFunction(1)
    /\ DOMAIN self = {"data_weight"}
    /\ Has(Supplied, "data_weight")

\* C10: the outcome of a call is that of the earliest violated check in the
\* order arity, key set, input_points, output_points, location, function;
\* being a function of the supplied arguments, it is the same for two calls
\* with identical arguments.
ExpectedOutcome ==
    IF ~NoPositional THEN ValueErrorArgs
    ELSE IF SuppliedKeys \notin VariantKeySets THEN ValueErrorKeys
    ELSE IF "input_points" \in WrongTyped THEN TypeErrorField("input_points")
    ELSE IF "output_points" \in WrongTyped THEN TypeErrorField("output_points")
    ELSE IF "location" \in WrongTyped THEN TypeErrorField("location")
    ELSE IF Has(Supplied, "function") /\ NonCallableAt # {}
         THEN TypeErrorFunction(FirstNonCallable - 1)
    ELSE NoExc

C10_EarliestViolatedCheck ==
    Terminal =>
        /\ exc = ExpectedOutcome
        /\ (pc = "raised") = (ExpectedOutcome # NoExc)

C10_Witness ==
    /\ TypeError
    /\ exc.site = "input_points"
    /\ Get(Supplied, "input_points") = N5
    /\ Has(Supplied, "function")
    /\ NonCallableAt # {}

====
